---- MODULE Spec2Model ----
(***************************************************************************)
(* AnimationSequence<T> of the keyframe crate (src/src/sequence.rs) and    *)
(* Keyframe<T> (src/src/keyframe.rs).                                      *)
(*                                                                         *)
(* Times are f64 seconds in the code.  Here a time is an integer number of *)
(* ticks (one tick is half a second): sums and differences of small        *)
(* integers are exact in f64, so the arithmetic of the code on these       *)
(* inputs is the arithmetic of the model.  Indices are 0-based as in the   *)
(* code; a TLA+ sequence is 1-based, so entry i of the Vec is s[i + 1].    *)
(***************************************************************************)
EXTENDS Integers, Sequences, FiniteSets, TLC

VARIABLES sequence, keyframe, time, status, op, arg, ret, reversals

vars == <<sequence, keyframe, time, status, op, arg, ret, reversals>>

\* ------------------------------------------------------------------ bounds
\* Largest keyframe time a caller passes (ticks).
MaxTime == 2
\* Largest number of entries a sequence is grown to.
MaxLen == 3
\* Largest number of items handed to insert_many / from_iter / From<Vec>.
MaxBatch == 2
\* Largest |delta| and timestamp overshoot a caller passes to advance_*.
MaxDelta == 3
\* Frames of self-recursion after which the call stack is exhausted.  Every
\* terminating call with the inputs above needs fewer frames.
StackLimit == 2 * (MaxTime + MaxDelta) + 4

\* Keyframe values (T = f64) a caller passes.  No operation that edits or
\* advances the sequence reads a value or a curve; those operations carry
\* both along with their entry.
Values == {1}
\* Easing functions a caller passes to Keyframe::new.
Functions == {"Linear"}
\* Times a caller passes to Keyframe::new (a negative one is clamped).
InputTimes == (-1) .. MaxTime
\* Deltas a caller passes to advance_by / advance_and_maybe_*.
Deltas == (-MaxDelta) .. MaxDelta
\* Timestamps a caller passes to advance_to.
Timestamps == (-2) .. (MaxTime + 2)

\* Option<usize>::None of the cursor field.
None == -1

\* ------------------------------------------------------------- Keyframe<T>
\* Keyframe::new: a negative time becomes 0.0.
Keyframe_new(value, t, function) ==
    [value |-> value, time |-> IF t < 0 THEN 0 ELSE t, function |-> function]

\* Keyframes a caller can build.
Keyframes ==
    {Keyframe_new(v, t, f) : v \in Values, t \in InputTimes, f \in Functions}

\* Keyframe::from((value, time)): EaseInOut is the easing function.
Keyframe_from(value, t) == Keyframe_new(value, t, "EaseInOut")

\* ---------------------------------------------------------- f64 arithmetic
\* An f64 is the fraction n/d in lowest terms with d > 0; NaN is 0/0.  The
\* sums, products and quotients below are those of the reals, which f64
\* computes to within one rounding.
RECURSIVE gcd(_, _)
gcd(a, b) == IF b = 0 THEN a ELSE gcd(b, a % b)

Abs(a) == IF a < 0 THEN -a ELSE a

NaN == [n |-> 0, d |-> 0]

IsNaN(a) == a.d = 0

F64(n, d) ==
    IF d = 0 THEN NaN
    ELSE LET g == gcd(Abs(n), Abs(d))
             sgn == IF d < 0 THEN -1 ELSE 1
         IN  [n |-> (sgn * n) \div g, d |-> (sgn * d) \div g]

\* An integer as an f64.
Int64(i) == F64(i, 1)

add(a, b) ==
    IF IsNaN(a) \/ IsNaN(b) THEN NaN ELSE F64(a.n * b.d + b.n * a.d, a.d * b.d)
sub(a, b) ==
    IF IsNaN(a) \/ IsNaN(b) THEN NaN ELSE F64(a.n * b.d - b.n * a.d, a.d * b.d)
mul(a, b) ==
    IF IsNaN(a) \/ IsNaN(b) THEN NaN ELSE F64(a.n * b.n, a.d * b.d)
\* a / b; the one division by zero the code can make is 0.0 / 0.0.
div(a, b) ==
    IF IsNaN(a) \/ IsNaN(b) THEN NaN ELSE F64(a.n * b.d, a.d * b.n)
\* a < b; every comparison with NaN is false.
lt(a, b) == ~IsNaN(a) /\ ~IsNaN(b) /\ a.n * b.d < b.n * a.d

\* ------------------------------------------------------- easing functions
\* A value of EaseInOut that is no fraction: the curve and the position.
Irrational(function, x) == [function |-> function, x |-> x]
IsIrrational(a) == "x" \in DOMAIN a

\* f64::round: half away from zero (positions are never negative here).
round(x) ==
    IF IsNaN(x) THEN NaN ELSE Int64((2 * x.n + x.d) \div (2 * x.d))

\* EasingFunction::y of the static curves.
y(function, x) ==
    CASE function = "Linear" -> x
      [] function = "Step" -> round(x)
      [] function = "Hold" -> Int64(0)
      [] function = "EaseInQuad" -> mul(x, x)
      [] function = "EaseOutQuad" -> mul(x, sub(Int64(2), x))
      [] function = "EaseInOut" ->
            \* 0.5 * (1 - cos(pi x))
            IF IsNaN(x) THEN NaN
            ELSE IF x \in {Int64(0), F64(1, 2), Int64(1)} THEN x
            ELSE Irrational(function, x)

\* <f64 as CanTween>::ease: from + (to - from) * time.
CanTween_ease(from, to, t) ==
    IF IsIrrational(t) THEN [from |-> from, to |-> to, y |-> t]
    ELSE add(from, mul(sub(to, from), t))

\* ease_with_unbounded_time(function, from, to, time)
ease_with_unbounded_time(function, from, to, t) ==
    CanTween_ease(from, to, y(function, t))

\* ease(function, from, to, time): time limited to 0.0 ..= 1.0.
ease(function, from, to, t) ==
    ease_with_unbounded_time(function, from, to,
        IF lt(t, Int64(0)) THEN Int64(0)
        ELSE IF lt(Int64(1), t) THEN Int64(1)
        ELSE t)

\* ease_with_scaled_time(function, from, to, time, max_time)
ease_with_scaled_time(function, from, to, t, max_time) ==
    ease(function, from, to,
        IF lt(t, Int64(0)) THEN Int64(0)
        ELSE IF lt(max_time, t) THEN Int64(1)
        ELSE div(t, max_time))

\* Keyframe::value()
value(k) == Int64(k.value)

\* tween_to that tests for an inverted pair before it compares the requested
\* time with the two keyframes.
tween_to_tests_inverted_first(k, next, t) ==
    IF next.time < k.time THEN value(next)
    ELSE IF t < k.time THEN value(k)
    ELSE IF t > next.time THEN value(next)
    ELSE CanTween_ease(value(k), value(next),
            y(k.function,
              ease_with_scaled_time("Linear", Int64(0), Int64(1),
                  Int64(t - k.time), Int64(next.time - k.time))))

\* Keyframe::tween_to(next, time); keyframe times and the requested time are
\* ticks.
tween_to(k, next, t) ==
    IF t < k.time THEN value(k)
    ELSE IF t > next.time THEN value(next)
    ELSE IF next.time < k.time THEN value(next)
    ELSE CanTween_ease(value(k), value(next),
            y(k.function,
              ease_with_scaled_time("Linear", Int64(0), Int64(1),
                  Int64(t - k.time), Int64(next.time - k.time))))

\* ------------------------------------------------------ AnimationSequence
\* AnimationSequence::new()
new == [sequence |-> <<>>, keyframe |-> None, time |-> 0, status |-> "ok"]

\* keyframes(): number of entries.
keyframes(me) == Len(me.sequence)

\* duration(): time of the last entry, 0 when empty.
duration(me) ==
    IF me.sequence = <<>> THEN 0 ELSE me.sequence[Len(me.sequence)].time

\* has_keyframe_at(timestamp)
has_keyframe_at(me, timestamp) ==
    \E i \in 1 .. Len(me.sequence) : me.sequence[i].time = timestamp

\* finished()
finished(me) == me.time = duration(me)

\* Option<_>::Some(v) and Option<_>::None of a returned value, and the
\* outcome of a call that panics.
SomeOf(v) == [some |-> v]
NoneOf == [none |-> TRUE]
Panic == [panic |-> TRUE]

\* pair(): the entry under the cursor and the one after it.  With the cursor
\* past the last index, sequence.len() - 1 underflows or sequence[c + 1] is
\* out of bounds.
pair(me) ==
    LET c == me.keyframe
        len == Len(me.sequence)
    IN  IF c # None /\ c > len - 1 THEN Panic
        ELSE IF c # None /\ c = len - 1
        THEN [s1 |-> SomeOf(me.sequence[c + 1]), s2 |-> NoneOf]
        ELSE IF c # None
        THEN [s1 |-> SomeOf(me.sequence[c + 1]),
              s2 |-> SomeOf(me.sequence[c + 2])]
        ELSE IF me.sequence # <<>>
        THEN [s1 |-> NoneOf, s2 |-> SomeOf(me.sequence[1])]
        ELSE [s1 |-> NoneOf, s2 |-> NoneOf]

\* now_strict() that answers Some(T::default()) when there is no entry.
now_strict_fabricates_default(me) ==
    LET p == pair(me)
    IN  IF p = Panic THEN Panic
        ELSE IF p.s1 # NoneOf /\ p.s2 # NoneOf
        THEN SomeOf(tween_to(p.s1.some, p.s2.some, me.time))
        ELSE IF p.s1 # NoneOf THEN SomeOf(value(p.s1.some))
        ELSE IF p.s2 # NoneOf THEN SomeOf(value(p.s2.some))
        ELSE SomeOf(Int64(0))

\* now_strict()
now_strict(me) ==
    LET p == pair(me)
    IN  IF p = Panic THEN Panic
        ELSE IF p.s1 # NoneOf /\ p.s2 # NoneOf
        THEN SomeOf(tween_to(p.s1.some, p.s2.some, me.time))
        ELSE IF p.s1 # NoneOf THEN SomeOf(value(p.s1.some))
        ELSE IF p.s2 # NoneOf THEN SomeOf(value(p.s2.some))
        ELSE NoneOf

\* T::default() of f64.
default == 0

\* now(): without an entry under the cursor the blend starts from
\* Keyframe::new(T::default(), 0.0, Linear).
now(me) ==
    LET p == pair(me)
    IN  IF p = Panic THEN Panic
        ELSE IF p.s1 # NoneOf /\ p.s2 # NoneOf
        THEN tween_to(p.s1.some, p.s2.some, me.time)
        ELSE IF p.s1 # NoneOf THEN value(p.s1.some)
        ELSE IF p.s2 # NoneOf
        THEN tween_to(Keyframe_new(default, 0, "Linear"), p.s2.some, me.time)
        ELSE value(Keyframe_new(default, 0, "Linear"))

\* progress(): time / duration, 0.0 when the duration is 0.0.
progress(me) ==
    IF duration(me) = 0 THEN Int64(0)
    ELSE div(Int64(me.time), Int64(duration(me)))

\* `if let Some(k) = self.keyframe` branch of update_current_keyframe
\* (lines 51-76), for a cursor Some(k).
update_from_cursor(me, k) ==
    IF keyframes(me) <= k
    THEN \* keyframe = None, then self.sequence[k] indexes out of bounds
         [me EXCEPT !.keyframe = None, !.status = "panic"]
    ELSE IF me.sequence[k + 1].time > me.time
    THEN \* scan (0..k).rev(); an empty range leaves the cursor as it is
         LET below == {i \in 0 .. (k - 1) : me.sequence[i + 1].time <= me.time}
         IN  IF k = 0 THEN me
             ELSE IF below = {} THEN [me EXCEPT !.keyframe = None]
             ELSE [me EXCEPT !.keyframe =
                      CHOOSE i \in below : \A j \in below : j <= i]
    ELSE \* scan k..len, stop at the first entry later than self.time
         LET stop == {i \in k .. (keyframes(me) - 1) :
                          me.sequence[i + 1].time > me.time}
             first == IF stop = {} THEN keyframes(me)
                      ELSE CHOOSE i \in stop : \A j \in stop : i <= j
         IN  [me EXCEPT !.keyframe = first - 1]

\* update_current_keyframe()
update_current_keyframe(me) ==
    IF me.sequence # <<>> /\ me.time = 0
    THEN [me EXCEPT !.keyframe = 0]
    ELSE IF me.sequence # <<>> /\ me.time = duration(me)
    THEN [me EXCEPT !.keyframe = Len(me.sequence) - 1]
    ELSE IF me.keyframe # None
    THEN update_from_cursor(me, me.keyframe)
    ELSE IF keyframes(me) > 0
    THEN \* keyframe = Some(0); self.update_current_keyframe()
         update_from_cursor([me EXCEPT !.keyframe = 0], 0)
    ELSE me

\* The closure |k, k2| k.time.partial_cmp(&k2.time) of sort_unstable_by:
\* k is placed after every entry whose time is not later than its own.
insert_sorted(s, k) ==
    LET n == Cardinality({i \in 1 .. Len(s) : s[i].time <= k.time})
    IN  SubSeq(s, 1, n) \o <<k>> \o SubSeq(s, n + 1, Len(s))

\* sort_unstable_by(time).  Entries of equal time keep the order they come
\* in; with pairwise distinct times (every call but the one of From<Vec>)
\* this is the one order any sort gives.
RECURSIVE sort_unstable_by_time(_)
sort_unstable_by_time(s) ==
    IF s = <<>> THEN <<>>
    ELSE insert_sorted(sort_unstable_by_time(SubSeq(s, 1, Len(s) - 1)), s[Len(s)])

\* Vec::dedup_by_key(|k| k.time()): of consecutive entries with the same time
\* the first is kept.
RECURSIVE dedup_by_key(_)
dedup_by_key(s) ==
    IF Len(s) <= 1 THEN s
    ELSE LET front == dedup_by_key(SubSeq(s, 1, Len(s) - 1))
         IN  IF front[Len(front)].time = s[Len(s)].time THEN front
             ELSE Append(front, s[Len(s)])

\* The unit value ().
Unit == <<>>

\* Result<(), AnimationSequenceError>
Ok == [err |-> FALSE, t |-> 0]
TimeCollision(t) == [err |-> TRUE, t |-> t]

\* advance_to(timestamp): clamp, recompute the cursor, return the overflow.
advance_to(me, timestamp) ==
    LET t == IF timestamp < 0 THEN 0
             ELSE IF timestamp > duration(me) THEN duration(me)
             ELSE timestamp
    IN  [me |-> update_current_keyframe([me EXCEPT !.time = t]),
         ret |-> timestamp - t]

\* advance_by(duration)
advance_by(me, d) == advance_to(me, me.time + d)

\* reverse() that mirrors the times but leaves the entries in their order.
reverse_keeps_order(me) ==
    LET max_time == duration(me)
        n == Len(me.sequence)
        mirrored_vector ==
            [i \in 1 .. n |-> [me.sequence[i] EXCEPT !.time = max_time - @]]
    IN  advance_to([me EXCEPT !.sequence = mirrored_vector], 0).me

\* reverse(): entries in reverse order, each time mirrored about the time of
\* the last entry, then advance_to(0.0).
reverse(me) ==
    LET max_time == duration(me)
        n == Len(me.sequence)
        reversed_vector ==
            [i \in 1 .. n |->
                [me.sequence[n + 1 - i] EXCEPT !.time = max_time - @]]
    IN  advance_to([me EXCEPT !.sequence = reversed_vector], 0).me

\* insert(keyframe) with the collision test made against the last entry only.
insert_checks_last_only(me, k) ==
    IF me.sequence # <<>> /\ me.sequence[Len(me.sequence)].time = k.time
    THEN [me |-> me, ret |-> TimeCollision(k.time)]
    ELSE LET n == Len(me.sequence)
             s == IF n > 0 /\ k.time > me.sequence[n].time
                  THEN Append(me.sequence, k)
                  ELSE IF n > 0 /\ k.time < me.sequence[n].time
                  THEN <<k>> \o me.sequence
                  ELSE sort_unstable_by_time(Append(me.sequence, k))
         IN  [me |-> update_current_keyframe([me EXCEPT !.sequence = s]),
              ret |-> Ok]

\* insert(keyframe)
insert(me, k) ==
    IF has_keyframe_at(me, k.time)
    THEN [me |-> me, ret |-> TimeCollision(k.time)]
    ELSE LET n == Len(me.sequence)
             s == IF n > 0 /\ k.time > me.sequence[n].time
                  THEN Append(me.sequence, k)
                  ELSE IF n > 0 /\ k.time < me.sequence[n].time
                  THEN <<k>> \o me.sequence
                  ELSE sort_unstable_by_time(Append(me.sequence, k))
         IN  [me |-> update_current_keyframe([me EXCEPT !.sequence = s]),
              ret |-> Ok]

\* The loop of insert_many that skips a colliding item and goes on with the
\* rest; the error of the first collision is still returned.
RECURSIVE push_each_skips_collisions(_, _)
push_each_skips_collisions(me, items) ==
    IF items = <<>> THEN [me |-> me, ret |-> Ok]
    ELSE IF has_keyframe_at(me, items[1].time)
    THEN [me |-> push_each_skips_collisions(me, SubSeq(items, 2, Len(items))).me,
          ret |-> TimeCollision(items[1].time)]
    ELSE push_each_skips_collisions([me EXCEPT !.sequence = Append(@, items[1])],
                                    SubSeq(items, 2, Len(items)))

\* The loop of insert_many over insert_into_vec: pushes until the first
\* collision, which ends the loop (the `?`).
RECURSIVE push_each(_, _)
push_each(me, items) ==
    IF items = <<>> THEN [me |-> me, ret |-> Ok]
    ELSE IF has_keyframe_at(me, items[1].time)
    THEN [me |-> me, ret |-> TimeCollision(items[1].time)]
    ELSE push_each([me EXCEPT !.sequence = Append(@, items[1])],
                   SubSeq(items, 2, Len(items)))

\* insert_many(keyframes): on a collision the error is returned at once,
\* before the sort and the cursor update.
insert_many(me, items) ==
    LET pushed == push_each(me, items)
    IN  IF pushed.ret.err THEN pushed
        ELSE [me |-> update_current_keyframe(
                        [pushed.me EXCEPT !.sequence = sort_unstable_by_time(@)]),
              ret |-> Ok]

\* retain that drops the entries and limits the time but does not update
\* the cursor.
retain_keeps_cursor(me, f) ==
    LET old_len == keyframes(me)
        kept == [me EXCEPT !.sequence = SelectSeq(@, LAMBDA k : k.time \in f)]
    IN  [me |-> IF kept.time > duration(kept)
                THEN [kept EXCEPT !.time = duration(kept)] ELSE kept,
         ret |-> old_len # keyframes(kept)]

\* retain(f); the predicate f is the set of times it accepts.
retain(me, f) ==
    LET old_len == keyframes(me)
        kept == [me EXCEPT !.sequence = SelectSeq(@, LAMBDA k : k.time \in f)]
    IN  IF old_len # keyframes(kept)
        THEN [me |-> update_current_keyframe(
                        IF kept.time > duration(kept)
                        THEN [kept EXCEPT !.time = duration(kept)] ELSE kept),
              ret |-> TRUE]
        ELSE [me |-> kept, ret |-> FALSE]

\* Every time an entry of the sequence can hold (the domain of predicates).
EntryTimes(me) == {me.sequence[i].time : i \in 1 .. Len(me.sequence)}

\* remove(timestamp) = retain(|t| t != timestamp)
remove(me, timestamp) == retain(me, EntryTimes(me) \ {timestamp})

\* clear() = retain(|_| false)
clear(me) == [me |-> retain(me, {}).me, ret |-> Unit]

\* advance_and_maybe_reverse without the advance_to(duration()) that follows
\* a reversal at the start.
RECURSIVE advance_and_maybe_reverse_stays_at_start(_, _, _)
advance_and_maybe_reverse_stays_at_start(me, d, depth) ==
    IF depth > StackLimit
    THEN [me |-> [me EXCEPT !.status = "overflow"], ret |-> FALSE, nrev |-> 0]
    ELSE LET a == advance_by(me, d)
         IN  IF a.ret = 0
             THEN [me |-> a.me, ret |-> FALSE, nrev |-> 0]
             ELSE LET r == reverse(a.me)
                      rec == advance_and_maybe_reverse_stays_at_start(r, a.ret, depth + 1)
                  IN  [me |-> rec.me, ret |-> TRUE, nrev |-> rec.nrev + 1]

\* advance_and_maybe_reverse(duration), `depth` frames deep in its own
\* recursion.  nrev counts the reverse() calls made.
RECURSIVE advance_and_maybe_reverse_at(_, _, _)
advance_and_maybe_reverse_at(me, d, depth) ==
    IF depth > StackLimit
    THEN [me |-> [me EXCEPT !.status = "overflow"], ret |-> FALSE, nrev |-> 0]
    ELSE LET a == advance_by(me, d)
         IN  IF a.ret = 0
             THEN [me |-> a.me, ret |-> FALSE, nrev |-> 0]
             ELSE LET r == reverse(a.me)
                      p == IF a.ret < 0 THEN advance_to(r, duration(r)).me ELSE r
                      rec == advance_and_maybe_reverse_at(p, a.ret, depth + 1)
                  IN  [me |-> rec.me, ret |-> TRUE, nrev |-> rec.nrev + 1]

\* advance_and_maybe_reverse(duration).  A recursion that exhausts the stack
\* aborts the process: nothing of the object is observable afterwards, the
\* state is kept as it was at the call.
advance_and_maybe_reverse(me, d) ==
    LET r == advance_and_maybe_reverse_at(me, d, 1)
    IN  IF r.me.status = "overflow"
        THEN [me |-> [me EXCEPT !.status = "overflow"], ret |-> FALSE, nrev |-> 0]
        ELSE r

\* advance_and_maybe_wrap that reverses the sequence at a boundary, as
\* advance_and_maybe_reverse does, before jumping to the opposite boundary.
RECURSIVE advance_and_maybe_wrap_reverses(_, _, _)
advance_and_maybe_wrap_reverses(me, d, depth) ==
    IF depth > StackLimit
    THEN [me |-> [me EXCEPT !.status = "overflow"], ret |-> FALSE]
    ELSE LET a == advance_by(me, d)
         IN  IF a.ret = 0
             THEN [me |-> a.me, ret |-> FALSE]
             ELSE LET r == reverse(a.me)
                      p == advance_to(r, IF a.ret < 0 THEN duration(r) ELSE 0).me
                      rec == advance_and_maybe_wrap_reverses(p, a.ret, depth + 1)
                  IN  [me |-> rec.me, ret |-> TRUE]

\* advance_and_maybe_wrap that jumps to the opposite boundary and does not
\* apply the remaining overflow.
advance_and_maybe_wrap_drops_overflow(me, d, depth) ==
    LET a == advance_by(me, d)
    IN  IF a.ret = 0
        THEN [me |-> a.me, ret |-> FALSE]
        ELSE [me |-> advance_to(a.me, IF a.ret < 0 THEN duration(a.me) ELSE 0).me,
              ret |-> TRUE]

\* advance_and_maybe_wrap(duration), `depth` frames deep in its own recursion.
RECURSIVE advance_and_maybe_wrap_at(_, _, _)
advance_and_maybe_wrap_at(me, d, depth) ==
    IF depth > StackLimit
    THEN [me |-> [me EXCEPT !.status = "overflow"], ret |-> FALSE]
    ELSE LET a == advance_by(me, d)
         IN  IF a.ret = 0
             THEN [me |-> a.me, ret |-> FALSE]
             ELSE LET p == advance_to(a.me, IF a.ret < 0 THEN duration(a.me) ELSE 0).me
                      rec == advance_and_maybe_wrap_at(p, a.ret, depth + 1)
                  IN  [me |-> rec.me, ret |-> TRUE]

\* advance_and_maybe_wrap(duration)
advance_and_maybe_wrap(me, d) ==
    LET r == advance_and_maybe_wrap_at(me, d, 1)
    IN  IF r.me.status = "overflow"
        THEN [me |-> [me EXCEPT !.status = "overflow"], ret |-> FALSE]
        ELSE r

\* All orders of a Vec of at most MaxBatch items.
Orders(vec) ==
    {[i \in 1 .. Len(vec) |-> vec[p[i]]] :
        p \in {q \in [1 .. Len(vec) -> 1 .. Len(vec)] :
                 \A i, j \in 1 .. Len(vec) : i # j => q[i] # q[j]}}

\* From<Vec<Keyframe<T>>>: sort_unstable_by, dedup_by_key, cursor update.
\* The unstable sort leaves entries of equal time in any order (the sort of
\* some order of the input), so which of them dedup keeps is not fixed: the
\* set of sequences it can build.
from_vec(vec) ==
    {update_current_keyframe([new EXCEPT !.sequence = dedup_by_key(sort_unstable_by_time(o))]) :
        o \in Orders(vec)}

\* FromIterator::from_iter: new() then insert_many(iter).ok()
from_iter(items) == insert_many(new, items).me

\* Vecs / iterators of keyframes a caller passes.
Batches == UNION {[1 .. n -> Keyframes] : n \in 0 .. MaxBatch}

\* --------------------------------------------------------------- the machine
\* The object as one record.
self == [sequence |-> sequence, keyframe |-> keyframe, time |-> time,
         status |-> status]

\* The call `o(a)` ran on the object and produced `r`; a call that panics or
\* aborts returns nothing.
Called(o, a, r, n) ==
    /\ sequence' = r.me.sequence
    /\ keyframe' = r.me.keyframe
    /\ time' = r.me.time
    /\ status' = r.me.status
    /\ op' = o
    /\ arg' = a
    /\ ret' = IF r.me.status = "ok" THEN r.ret ELSE Unit
    /\ reversals' = n

\* A constructor built `me`.
Built(me, o, a) ==
    /\ sequence = me.sequence
    /\ keyframe = me.keyframe
    /\ time = me.time
    /\ status = me.status
    /\ op = o
    /\ arg = a
    /\ ret = Unit
    /\ reversals = 0

Init ==
    \/ Built(new, "new", Unit)
    \/ \E vec \in Batches : \E me \in from_vec(vec) : Built(me, "from", vec)
    \/ \E items \in Batches : Built(from_iter(items), "from_iter", items)

\* The caller is between two calls: the object is live (no panic, no abort)
\* and the result of the previous call has been taken.
Live == status = "ok" /\ op = "idle"

\* The caller takes the result of the call it made and goes on; the object is
\* not touched.
Resume ==
    /\ status = "ok"
    /\ op # "idle"
    /\ op' = "idle"
    /\ arg' = Unit
    /\ ret' = Unit
    /\ reversals' = 0
    /\ UNCHANGED <<sequence, keyframe, time, status>>

\* reverse() can move entry times outside the times callers pass; the
\* exploration follows it while they stay within MaxTime of zero.
InRange(me) ==
    \A i \in 1 .. Len(me.sequence) :
        me.sequence[i].time \in (-MaxTime) .. MaxTime

Insert ==
    \E k \in Keyframes :
        /\ Live
        /\ Len(sequence) < MaxLen \/ has_keyframe_at(self, k.time)
        /\ Called("insert", k, insert(self, k), 0)

InsertMany ==
    \E items \in Batches :
        LET r == insert_many(self, items)
        IN  /\ Live
            /\ Len(r.me.sequence) <= MaxLen
            /\ Called("insert_many", items, r, 0)

Remove ==
    \E ts \in 0 .. MaxTime :
        /\ Live
        /\ Called("remove", ts, remove(self, ts), 0)

Retain ==
    \E f \in SUBSET EntryTimes(self) :
        /\ Live
        /\ Called("retain", f, retain(self, f), 0)

Clear ==
    /\ Live
    /\ Called("clear", Unit, clear(self), 0)

Reverse ==
    /\ Live
    /\ InRange(reverse(self))
    /\ Called("reverse", Unit, [me |-> reverse(self), ret |-> Unit], 1)

AdvanceTo ==
    \E ts \in Timestamps :
        /\ Live
        /\ Called("advance_to", ts, advance_to(self, ts), 0)

AdvanceBy ==
    \E d \in Deltas :
        /\ Live
        /\ Called("advance_by", d, advance_by(self, d), 0)

AdvanceAndMaybeReverse ==
    \E d \in Deltas :
        LET r == advance_and_maybe_reverse(self, d)
        IN  /\ Live
            /\ InRange(r.me)
            /\ Called("advance_and_maybe_reverse", d, r, r.nrev)

AdvanceAndMaybeWrap ==
    \E d \in Deltas :
        /\ Live
        /\ Called("advance_and_maybe_wrap", d, advance_and_maybe_wrap(self, d), 0)

Next ==
    \/ Insert
    \/ InsertMany
    \/ Remove
    \/ Retain
    \/ Clear
    \/ Reverse
    \/ AdvanceTo
    \/ AdvanceBy
    \/ AdvanceAndMaybeReverse
    \/ AdvanceAndMaybeWrap
    \/ Resume

Spec == Init /\ [][Next]_vars

\* ------------------------------------------------ sequences read by value
\* A second specification for what now() / now_strict() return: keyframes
\* of different values and curves, edited by insert and reverse and played
\* by advance_to / advance_by.
BlendValues == {1, 3}
BlendFunctions == {"Linear", "Hold"}
BlendKeyframes ==
    {Keyframe_new(v, t, f) :
        v \in BlendValues, t \in InputTimes, f \in BlendFunctions}
BlendBatches == UNION {[1 .. n -> BlendKeyframes] : n \in 0 .. MaxBatch}

\* The crate's doc example, keyframes![(0.5, 0.0), (1.5, 0.3, Linear),
\* (2.5, 1.0)] followed by advance_by(0.65), with values in halves and times
\* in twentieths of a second.
DocExample ==
    <<Keyframe_from(1, 0), Keyframe_new(3, 6, "Linear"), Keyframe_from(5, 20)>>
DocExampleDelta == 13

BlendInit ==
    \/ \E vec \in BlendBatches : \E me \in from_vec(vec) : Built(me, "from", vec)
    \/ \E me \in from_vec(DocExample) : Built(me, "from", DocExample)

BlendInsert ==
    \E k \in BlendKeyframes :
        /\ Live
        /\ Len(sequence) < MaxLen \/ has_keyframe_at(self, k.time)
        /\ Called("insert", k, insert(self, k), 0)

BlendAdvanceBy ==
    \E d \in Deltas \cup {DocExampleDelta} :
        /\ Live
        /\ Called("advance_by", d, advance_by(self, d), 0)

BlendNext ==
    \/ BlendInsert
    \/ Reverse
    \/ AdvanceTo
    \/ BlendAdvanceBy
    \/ Resume

BlendSpec == BlendInit /\ [][BlendNext]_vars

\* ------------------------------------------------- tween_to on its own
\* A third specification for Keyframe::tween_to as a function of two
\* keyframes and a requested time: a caller builds any two keyframes (the
\* second may start before the first) and asks for the value at any time.
TweenValues == {0, 10}
TweenFunctions ==
    {"Linear", "Step", "Hold", "EaseInQuad", "EaseOutQuad", "EaseInOut"}
TweenKeyframes ==
    {Keyframe_new(v, t, f) :
        v \in TweenValues, t \in InputTimes, f \in TweenFunctions}

TweenInit == Built(new, "new", Unit)

TweenTo ==
    \E k \in TweenKeyframes, next \in TweenKeyframes, t \in Timestamps :
        /\ Live
        /\ op' = "tween_to"
        /\ arg' = [self |-> k, next |-> next, time |-> t]
        /\ ret' = tween_to(k, next, t)
        /\ UNCHANGED <<sequence, keyframe, time, status, reversals>>

TweenNext ==
    \/ TweenTo
    \/ Resume

TweenSpec == TweenInit /\ [][TweenNext]_vars

\* ------------------------------------------------- building from batches
\* A fourth specification for the batch paths (From<Vec>, from_iter,
\* insert_many) with batches two items longer than those of Spec, so that
\* items can follow a collision.
BuildBatches == UNION {[1 .. n -> Keyframes] : n \in 0 .. (MaxBatch + 2)}

BuildInit ==
    \/ Built(new, "new", Unit)
    \/ \E vec \in BuildBatches : \E me \in from_vec(vec) : Built(me, "from", vec)
    \/ \E items \in BuildBatches : Built(from_iter(items), "from_iter", items)

BuildInsertMany ==
    \E items \in BuildBatches :
        LET r == insert_many(self, items)
        IN  /\ Live
            /\ Len(r.me.sequence) <= MaxLen
            /\ Called("insert_many", items, r, 0)

BuildNext ==
    \/ BuildInsertMany
    \/ Resume

BuildSpec == BuildInit /\ [][BuildNext]_vars

\* ------------------------------------------------ the easing entry points
\* The older variants kept in the repository next to easing.rs.
\* tweening/mod.rs, <f64 as CanTween>::ease: (from + (to - from)) * time.
tweening_CanTween_ease(from, to, t) ==
    IF IsIrrational(t) THEN [sum |-> add(from, sub(to, from)), y |-> t]
    ELSE mul(add(from, sub(to, from)), t)

\* tweening/mod.rs, ease_with_unbounded_time(function, from, to, time)
tweening_ease_with_unbounded_time(function, from, to, t) ==
    tweening_CanTween_ease(from, to, y(function, t))

\* tweening/mod.rs, ease(function, from, to, time)
tweening_ease(function, from, to, t) ==
    tweening_ease_with_unbounded_time(function, from, to,
        IF lt(t, Int64(0)) THEN Int64(0)
        ELSE IF lt(Int64(1), t) THEN Int64(1)
        ELSE t)

\* tweening/mod.rs, ease_with_scaled_time(function, from, to, time, max_time)
tweening_ease_with_scaled_time(function, from, to, t, max_time) ==
    tweening_ease(function, from, to,
        IF lt(t, Int64(0)) THEN Int64(0)
        ELSE IF lt(max_time, t) THEN Int64(1)
        ELSE div(t, max_time))

\* curve.rs, EasingFunction::y_for_unbounded_x of a static curve.
y_for_unbounded_x(curve, x) == y(curve, x)

\* curve.rs, EasingFunction::y(curve, x): x limited to 0.0 ..= 1.0.
curve_y(curve, x) ==
    y_for_unbounded_x(curve,
        IF lt(x, Int64(0)) THEN Int64(0)
        ELSE IF lt(Int64(1), x) THEN Int64(1)
        ELSE x)

\* curve.rs, EasingFunction::y_for_scaled_x(curve, x, max_x)
y_for_scaled_x(curve, x, max_x) ==
    curve_y(curve,
        IF lt(x, Int64(0)) THEN Int64(0)
        ELSE IF lt(max_x, x) THEN max_x
        ELSE div(x, max_x))

\* A fifth specification that calls the easing entry points of the three
\* variants with endpoints, times (in quarters) and maximum times drawn from
\* small sets; the sequence is not touched.
EaseModules == {"easing", "tweening"}
EaseFunctions == {"Linear", "EaseInQuad"}
EaseValues == {Int64(0), Int64(1), Int64(3)}
EaseTimes == {F64(k, 4) : k \in -2 .. 4 * MaxTime}
EaseMaxTimes == {F64(1, 2), Int64(1), Int64(2)}

EaseInit == Built(new, "new", Unit)

\* A call of a free function: only the caller's record of it changes.
Applied(o, a, r) ==
    /\ op' = o
    /\ arg' = a
    /\ ret' = r
    /\ UNCHANGED <<sequence, keyframe, time, status, reversals>>

CanTweenEase ==
    \E m \in EaseModules, from \in EaseValues, to \in EaseValues, t \in EaseTimes :
        /\ Live
        /\ Applied("CanTween::ease", [module |-> m, from |-> from, to |-> to, time |-> t],
                   IF m = "easing" THEN CanTween_ease(from, to, t)
                   ELSE tweening_CanTween_ease(from, to, t))

EaseWithUnboundedTime ==
    \E m \in EaseModules, f \in EaseFunctions, from \in EaseValues,
       to \in EaseValues, t \in EaseTimes :
        /\ Live
        /\ Applied("ease_with_unbounded_time",
                   [module |-> m, function |-> f, from |-> from, to |-> to, time |-> t],
                   IF m = "easing" THEN ease_with_unbounded_time(f, from, to, t)
                   ELSE tweening_ease_with_unbounded_time(f, from, to, t))

Ease ==
    \E m \in EaseModules, f \in EaseFunctions, from \in EaseValues,
       to \in EaseValues, t \in EaseTimes :
        /\ Live
        /\ Applied("ease",
                   [module |-> m, function |-> f, from |-> from, to |-> to, time |-> t],
                   IF m = "easing" THEN ease(f, from, to, t)
                   ELSE tweening_ease(f, from, to, t))

EaseWithScaledTime ==
    \E m \in EaseModules, f \in EaseFunctions, from \in EaseValues,
       to \in EaseValues, t \in EaseTimes, max_time \in EaseMaxTimes :
        /\ Live
        /\ Applied("ease_with_scaled_time",
                   [module |-> m, function |-> f, from |-> from, to |-> to,
                    time |-> t, max_time |-> max_time],
                   IF m = "easing" THEN ease_with_scaled_time(f, from, to, t, max_time)
                   ELSE tweening_ease_with_scaled_time(f, from, to, t, max_time))

CurveY ==
    \E f \in EaseFunctions, x \in EaseTimes :
        /\ Live
        /\ Applied("y", [module |-> "curve", function |-> f, x |-> x], curve_y(f, x))

YForScaledX ==
    \E f \in EaseFunctions, x \in EaseTimes, max_x \in EaseMaxTimes :
        /\ Live
        /\ Applied("y_for_scaled_x",
                   [module |-> "curve", function |-> f, x |-> x, max_x |-> max_x],
                   y_for_scaled_x(f, x, max_x))

EaseNext ==
    \/ CanTweenEase
    \/ EaseWithUnboundedTime
    \/ Ease
    \/ EaseWithScaledTime
    \/ CurveY
    \/ YForScaledX
    \/ Resume

EaseSpec == EaseInit /\ [][EaseNext]_vars

\* ------------------------------------------- the resampled-sequence curve
\* dynamic_functions.rs: the number of samples a Keyframes curve holds.
SAMPLE_TABLE_SIZE == 15

\* The same sequence with its times counted in 1/k of a tick, so that the
\* sample times (i / SAMPLE_TABLE_SIZE) * max_time are whole numbers.
Rescaled(me, k) ==
    [me EXCEPT !.time = k * @,
               !.sequence = [e \in DOMAIN @ |-> [@[e] EXCEPT !.time = k * @]]]

\* f64::floor
floor(x) == x.n \div x.d

\* The loop of from_easing_function from sample i on: advance_to the sample
\* time, read now(), normalize.  `s` counts time in 1 / SAMPLE_TABLE_SIZE of
\* the ticks of max_time.
RECURSIVE sample_table(_, _, _, _, _)
sample_table(s, i, max_time, low_point, high_point) ==
    IF i = SAMPLE_TABLE_SIZE THEN <<>>
    ELSE LET a == advance_to(s, i * max_time).me
             v == IF a.status = "ok" THEN now(a) ELSE Panic
         IN  <<IF v = Panic THEN Panic
                ELSE div(sub(v, low_point), sub(high_point, low_point))>>
             \o sample_table(a, i + 1, max_time, low_point, high_point)

\* Keyframes::from_easing_function(s).  Of an empty sequence keyframes() - 1
\* underflows: a build with overflow checks panics there, one without wraps
\* and get() finds nothing.  Keyframe::default() stands in for both ends of
\* an empty sequence, so its value cancels out.
from_easing_function(s, build) ==
    IF s.sequence = <<>> /\ build = "debug" THEN Panic
    ELSE LET first == IF s.sequence = <<>> THEN Int64(default)
                      ELSE value(s.sequence[1])
             last == IF s.sequence = <<>> THEN Int64(default)
                     ELSE value(s.sequence[Len(s.sequence)])
             unit == last = Int64(0) \/ last = first
             low_point == IF unit THEN Int64(0) ELSE first
             high_point == IF unit THEN Int64(1) ELSE last
             table == sample_table(Rescaled(s, SAMPLE_TABLE_SIZE), 0, duration(s),
                                   low_point, high_point)
         IN  IF \E i \in 1 .. Len(table) : table[i] = Panic THEN Panic
             ELSE [table |-> table]

\* <&Keyframes as EasingFunction>::y(x); entry i of the table is table[i + 1].
Keyframes_y(table, x) ==
    LET current_sample == floor(mul(x, Int64(SAMPLE_TABLE_SIZE)))
        difference == sub(mul(x, Int64(SAMPLE_TABLE_SIZE)), Int64(current_sample))
        next_sample == current_sample + 1
    IN  IF next_sample >= SAMPLE_TABLE_SIZE
        THEN IF current_sample >= SAMPLE_TABLE_SIZE THEN Panic
             ELSE table[current_sample + 1]
        ELSE IF current_sample = -1 THEN mul(table[1], difference)
        ELSE IF current_sample < -1 THEN sub(Int64(0), table[1])
        ELSE add(table[current_sample + 1],
                 mul(sub(table[next_sample + 1], table[current_sample + 1]),
                     difference))

\* A sixth specification: sequences of linear keyframes built from a Vec,
\* turned into a Keyframes curve that is then read at positions in quarters.
Builds == {"debug", "release"}
ResampleValues == {0, 1, 3}
ResampleKeyframes ==
    {Keyframe_new(v, t, "Linear") : v \in ResampleValues, t \in InputTimes}
ResampleBatches == UNION {[1 .. n -> ResampleKeyframes] : n \in 0 .. MaxBatch}

ResampleInit ==
    \/ Built(new, "new", Unit)
    \/ \E vec \in ResampleBatches : \E me \in from_vec(vec) : Built(me, "from", vec)

\* s.clone().to_easing_function()
ToEasingFunction ==
    \E build \in Builds :
        /\ Live
        /\ Applied("to_easing_function", [build |-> build],
                   from_easing_function(self, build))

\* (&s.clone().to_easing_function()).y(x)
KeyframesY ==
    \E build \in Builds, x \in EaseTimes :
        LET f == from_easing_function(self, build)
        IN  /\ Live
            /\ f # Panic
            /\ Applied("Keyframes::y", [table |-> f.table, x |-> x],
                       Keyframes_y(f.table, x))

ResampleNext ==
    \/ ToEasingFunction
    \/ KeyframesY
    \/ Resume

ResampleSpec == ResampleInit /\ [][ResampleNext]_vars

\* ------------------------------------------------------ the Bezier curve
\* dynamic_functions.rs, mod bezier.  Control points and positions are exact
\* fractions; what Newton-Raphson computes from a guess is no small fraction
\* and is kept as the record of its inputs.
NEWTON_ITERTIONS == 4
NEWTON_MIN_SLOPE == F64(1, 1000)
SUBDIVISION_PRECISION == F64(1, 10000000)
SUBDIVISION_MAX_ITERATIONS == 10

BezierCurve_a(x1, x2) == add(sub(Int64(1), mul(Int64(3), x2)), mul(Int64(3), x1))
BezierCurve_b(x1, x2) == sub(mul(Int64(3), x2), mul(Int64(6), x1))
BezierCurve_c(x1) == mul(Int64(3), x1)

\* A parameter that came out of newton_raphson.
IsRefined(t) == "iterations" \in DOMAIN t

\* BezierCurve::at(t, x1, x2)
BezierCurve_at(t, x1, x2) ==
    IF IsRefined(t) THEN [at |-> t, x1 |-> x1, x2 |-> x2]
    ELSE mul(add(mul(add(mul(BezierCurve_a(x1, x2), t), BezierCurve_b(x1, x2)), t),
                 BezierCurve_c(x1)), t)

\* BezierCurve::slope(t, x1, x2)
BezierCurve_slope(t, x1, x2) ==
    add(add(mul(mul(mul(Int64(3), BezierCurve_a(x1, x2)), t), t),
            mul(mul(Int64(2), BezierCurve_b(x1, x2)), t)),
        BezierCurve_c(x1))

\* newton_raphson that runs its loop over 0 ..= NEWTON_ITERTIONS.
newton_raphson_inclusive_range(x, guess, x1, x2, flat_at) ==
    [refined |-> <<x, guess, x1>>,
     iterations |-> IF flat_at <= NEWTON_ITERTIONS + 1 THEN flat_at - 1
                    ELSE NEWTON_ITERTIONS + 1]

\* BezierCurve::newton_raphson(x, guess, x1, x2): the loop over
\* 0 .. NEWTON_ITERTIONS breaks in the pass in which the slope at the
\* current guess is exactly 0.0; `flat_at` is the number of that pass
\* (beyond NEWTON_ITERTIONS: never), `iterations` the updates of the guess.
newton_raphson(x, guess, x1, x2, flat_at) ==
    [refined |-> <<x, guess, x1>>,
     iterations |-> IF flat_at <= NEWTON_ITERTIONS THEN flat_at - 1
                    ELSE NEWTON_ITERTIONS]

\* The while loop of binary_subdivide from its i-th pass on.
RECURSIVE subdivide_loop(_, _, _, _, _, _, _, _)
subdivide_loop(x, lo, hi, x1, x2, current_x, current_t, i) ==
    LET run_once == FALSE
    IN  IF run_once \/ (lt(SUBDIVISION_PRECISION, F64(Abs(current_x.n), current_x.d))
                          /\ (i + 1) < SUBDIVISION_MAX_ITERATIONS)
        THEN LET t == add(lo, div(sub(hi, lo), Int64(2)))
                 cx == sub(BezierCurve_at(t, x1, x2), x)
             IN  IF lt(Int64(0), cx)
                 THEN subdivide_loop(x, lo, t, x1, x2, cx, t, i + 1)
                 ELSE subdivide_loop(x, t, hi, x1, x2, cx, t, i + 1)
        ELSE [t |-> current_t, iterations |-> i]

\* BezierCurve::binary_subdivide(x, a, b, x1, x2)
binary_subdivide(x, lo, hi, x1, x2) ==
    subdivide_loop(x, lo, hi, x1, x2, Int64(0), Int64(0), 0)

\* BezierCurve::from: the table of at(i / (SAMPLE_TABLE_SIZE - 1), p1.x, p2.x).
sample_table_of(x1, x2) ==
    [i \in 1 .. SAMPLE_TABLE_SIZE |->
        BezierCurve_at(F64(i - 1, SAMPLE_TABLE_SIZE - 1), x1, x2)]

\* The table search of t_for_x: the sample it stops at.
RECURSIVE search(_, _, _)
search(table, x, current_sample) ==
    IF current_sample # SAMPLE_TABLE_SIZE - 1 /\ ~lt(x, table[current_sample + 1])
    THEN search(table, x, current_sample + 1)
    ELSE current_sample

\* BezierCurve::t_for_x(x); `searched` counts the passes of the table search.
t_for_x(curve, x, flat_at) ==
    LET searched == search(curve.sample_table, x, 1) - 1
        interval_start == F64(searched, SAMPLE_TABLE_SIZE - 1)
        dist == div(sub(x, curve.sample_table[searched + 1]),
                    sub(curve.sample_table[searched + 2],
                        curve.sample_table[searched + 1]))
        guess_for_t == add(interval_start, mul(dist, Int64(SAMPLE_TABLE_SIZE)))
        inital_slope == BezierCurve_slope(guess_for_t, curve.p1.x, curve.p2.x)
    IN  IF ~lt(inital_slope, NEWTON_MIN_SLOPE)
        THEN LET n == newton_raphson(x, guess_for_t, curve.p1.x, curve.p2.x, flat_at)
             IN  [t |-> n, searched |-> searched, newton |-> n.iterations,
                  subdivided |-> 0]
        ELSE IF inital_slope = Int64(0)
        THEN [t |-> guess_for_t, searched |-> searched, newton |-> 0,
              subdivided |-> 0]
        ELSE LET b == binary_subdivide(x, interval_start,
                        add(interval_start, Int64(SAMPLE_TABLE_SIZE)),
                        curve.p1.x, curve.p2.x)
             IN  [t |-> b.t, searched |-> searched, newton |-> 0,
                  subdivided |-> b.iterations]

\* BezierCurve::limit_vector: each coordinate limited to 0.0 ..= 1.0.
limit_vector(c) ==
    [x |-> IF lt(c.x, Int64(0)) THEN Int64(0)
           ELSE IF lt(Int64(1), c.x) THEN Int64(1) ELSE c.x,
     y |-> IF lt(c.y, Int64(0)) THEN Int64(0)
           ELSE IF lt(Int64(1), c.y) THEN Int64(1) ELSE c.y]

\* BezierCurve::from(p1, p2)
BezierCurve_from(p1, p2) ==
    [sample_table |-> sample_table_of(limit_vector(p1).x, limit_vector(p2).x),
     p1 |-> limit_vector(p1), p2 |-> limit_vector(p2)]

\* <&BezierCurve as EasingFunction>::y(x), with the passes of each loop.
BezierCurve_y(curve, x, flat_at) ==
    IF x = Int64(0)
    THEN [value |-> Int64(0), searched |-> 0, newton |-> 0, subdivided |-> 0]
    ELSE IF x = Int64(1)
    THEN [value |-> Int64(1), searched |-> 0, newton |-> 0, subdivided |-> 0]
    ELSE LET r == t_for_x(curve, x, flat_at)
         IN  [value |-> BezierCurve_at(r.t, curve.p1.y, curve.p2.y),
              searched |-> r.searched, newton |-> r.newton,
              subdivided |-> r.subdivided]

\* A seventh specification: curves whose control points have the listed
\* x-coordinates, read at positions in fourteenths from -1/7 to 17/14; the
\* curve (1, 0), whose slope is 0.0 at t = 1/2, is read at five positions.
BezierAbscissas ==
    {<<Int64(0), F64(1, 3)>>, <<F64(1, 3), F64(2, 3)>>, <<F64(2, 3), Int64(1)>>}
BezierOrdinates == {Int64(0), Int64(1)}
BezierXs == {F64(k, 14) : k \in -2 .. 17}
BezierCalls ==
    {[px |-> px, x |-> x] : px \in BezierAbscissas, x \in BezierXs}
    \cup {[px |-> <<Int64(1), Int64(0)>>, x |-> x] :
            x \in {Int64(0), F64(3, 14), F64(1, 2), F64(5, 7), Int64(1)}}
FlatAt == 2 .. (NEWTON_ITERTIONS + 2)

BezierInit == Built(new, "new", Unit)

BezierY ==
    \E call \in BezierCalls, y1 \in BezierOrdinates, y2 \in BezierOrdinates,
       flat_at \in FlatAt :
        LET curve == BezierCurve_from([x |-> call.px[1], y |-> y1],
                                      [x |-> call.px[2], y |-> y2])
        IN  /\ Live
            /\ Applied("BezierCurve::y",
                       [p1 |-> curve.p1, p2 |-> curve.p2, x |-> call.x,
                        flat_at |-> flat_at],
                       BezierCurve_y(curve, call.x, flat_at))

BinarySubdivide ==
    \E call \in BezierCalls, k \in 0 .. (SAMPLE_TABLE_SIZE - 2), wide \in BOOLEAN :
        LET lo == F64(k, SAMPLE_TABLE_SIZE - 1)
            hi == IF wide THEN add(lo, Int64(SAMPLE_TABLE_SIZE))
                  ELSE F64(k + 1, SAMPLE_TABLE_SIZE - 1)
        IN  /\ Live
            /\ Applied("binary_subdivide",
                       [x |-> call.x, a |-> lo, b |-> hi,
                        x1 |-> call.px[1], x2 |-> call.px[2]],
                       binary_subdivide(call.x, lo, hi, call.px[1], call.px[2]))

BezierNext ==
    \/ BezierY
    \/ BinarySubdivide
    \/ Resume

BezierSpec == BezierInit /\ [][BezierNext]_vars

\* ------------------------------------------------ seeking back and forth
\* An eighth specification: sequences whose first keyframe can lie two
\* ticks after 0.0 with another one behind it, built from a Vec and played
\* by advance_to / advance_by, so that the playback time can come to lie
\* strictly between 0.0 and the first keyframe from either side.
SeekValues == {1, 3}
SeekTimes == 0 .. (MaxTime + 1)
SeekKeyframes ==
    {Keyframe_new(v, t, "Linear") : v \in SeekValues, t \in SeekTimes}
SeekBatches == UNION {[1 .. n -> SeekKeyframes] : n \in 0 .. MaxBatch}

SeekInit ==
    \E vec \in SeekBatches : \E me \in from_vec(vec) : Built(me, "from", vec)

SeekNext ==
    \/ AdvanceTo
    \/ AdvanceBy
    \/ Resume

SeekSpec == SeekInit /\ [][SeekNext]_vars

\* ------------------------------------------------------ playing to the end
\* A specification of playback: a sequence is built (new, From<Vec>,
\* from_iter) and edited (insert_many, reverse); then the caller plays it
\* with advance_by(d), one positive d for the whole playback, call after
\* call.  Here arg and ret hold the number passed to and returned by
\* advance_by as Some(_), and None for every other call.
PlayKeyframes == {Keyframe_new(1, t, "Linear") : t \in 0 .. MaxTime}
PlayBatches == UNION {[1 .. n -> PlayKeyframes] : n \in 0 .. MaxBatch}
PlayDeltas == 1 .. MaxDelta

\* A constructor built `me`.
PlayBuilt(me, o) ==
    /\ sequence = me.sequence
    /\ keyframe = me.keyframe
    /\ time = me.time
    /\ status = me.status
    /\ op = o
    /\ arg = NoneOf
    /\ ret = NoneOf
    /\ reversals = 0

\* The call `o` ran on the object and left it as `me`; a and r are the
\* number passed and the number returned, if any.
PlayCalled(o, a, me, r) ==
    /\ sequence' = me.sequence
    /\ keyframe' = me.keyframe
    /\ time' = me.time
    /\ status' = me.status
    /\ op' = o
    /\ arg' = a
    /\ ret' = IF me.status = "ok" THEN r ELSE NoneOf
    /\ reversals' = 0

PlayInit ==
    \/ PlayBuilt(new, "new")
    \/ \E vec \in PlayBatches : \E me \in from_vec(vec) : PlayBuilt(me, "from")
    \/ \E items \in PlayBatches : PlayBuilt(from_iter(items), "from_iter")

PlayInsertMany ==
    \E items \in PlayBatches :
        LET r == insert_many(self, items)
        IN  /\ Live
            /\ Len(r.me.sequence) <= MaxLen
            /\ PlayCalled("insert_many", NoneOf, r.me, NoneOf)

PlayReverse ==
    /\ Live
    /\ InRange(reverse(self))
    /\ PlayCalled("reverse", NoneOf, reverse(self), NoneOf)

\* The caller goes on after the constructor or an edit.
PlayResume ==
    /\ status = "ok"
    /\ op \notin {"idle", "advance_by"}
    /\ op' = "idle"
    /\ UNCHANGED <<sequence, keyframe, time, status, arg, ret, reversals>>

\* advance_by(d): the first call of the playback chooses d, every later call
\* passes the same d.
Play ==
    \E d \in PlayDeltas :
        LET r == advance_by(self, d)
        IN  /\ status = "ok"
            /\ op = "idle" \/ (op = "advance_by" /\ arg = SomeOf(d))
            /\ PlayCalled("advance_by", SomeOf(d), r.me, SomeOf(r.ret))

PlayNext ==
    \/ PlayInsertMany
    \/ PlayReverse
    \/ PlayResume
    \/ Play

\* The caller goes on after every call, and the playback is started and
\* continued: advance_by is called again and again.
PlaySpec ==
    PlayInit /\ [][PlayNext]_vars /\ WF_vars(PlayResume) /\ SF_vars(Play)

\* ================================================================== claims
\* Entries strictly ascending by time (so no two share a time).
Sorted(s) == \A i \in 1 .. Len(s) - 1 : s[i].time < s[i + 1].time

\* Some entry of s has time t.
HasTime(s, t) == \E i \in 1 .. Len(s) : s[i].time = t

\* Time of the last entry of s, 0 when s is empty.
LastTime(s) == IF s = <<>> THEN 0 ELSE s[Len(s)].time

\* The cursor that matches playback time t: the greatest index (0-based)
\* of an entry with time <= t, None when there is none.
CursorFor(s, t) ==
    LET at == {i \in 0 .. Len(s) - 1 : s[i + 1].time <= t}
    IN  IF at = {} THEN None ELSE CHOOSE i \in at : \A j \in at : j <= i

\* s with k added at its sorted position.
WithInserted(s, k) ==
    SelectSeq(s, LAMBDA e : e.time < k.time) \o <<k>>
        \o SelectSeq(s, LAMBDA e : e.time > k.time)

\* s in reverse order with every time t replaced by LastTime(s) - t.
Mirrored(s) ==
    [i \in 1 .. Len(s) |->
        [value |-> s[Len(s) + 1 - i].value,
         time |-> LastTime(s) - s[Len(s) + 1 - i].time,
         function |-> s[Len(s) + 1 - i].function]]

\* C1: in every reachable state the entries are strictly ascending by time
\* and no two entries share a time.
C1_SortedUnique == Sorted(sequence)

\* C2: in every reachable state 0 <= time() <= duration(), duration() being
\* the time of the last entry or 0 when the sequence is empty.
C2_TimeWithinDuration == 0 <= time /\ time <= LastTime(sequence)

\* C3: in every reachable state the cursor is Some(i) for the greatest i with
\* entries[i].time <= time(), and None exactly when there is no such entry.
C3_CursorMatchesTime == status = "ok" => keyframe = CursorFor(sequence, time)

\* C4: insert(k) on a sequence that has an entry at k.time returns
\* Err(TimeCollision(k.time)) and changes neither the entries, their count,
\* time() nor the cursor.
C4_CollisionLeavesUnchanged ==
    [][(op' = "insert" /\ HasTime(sequence, arg'.time)) =>
          /\ ret' = TimeCollision(arg'.time)
          /\ status' = "ok"
          /\ sequence' = sequence
          /\ Len(sequence') = Len(sequence)
          /\ time' = time
          /\ keyframe' = keyframe]_vars

\* C4 witness: a rejected insert on a sequence of two entries that is being
\* played (time() > 0).
C4_Witness ==
    /\ op = "insert"
    /\ ret = TimeCollision(arg.time)
    /\ Len(sequence) = 2
    /\ time > 0

\* C5: insert(k) on a sorted sequence with no entry at k.time returns Ok and
\* leaves the sequence sorted with k at its sorted position and every
\* previous entry kept (k before the first, between two, or after the last).
C5_InsertKeepsSorted ==
    [][(op' = "insert" /\ Sorted(sequence) /\ ~HasTime(sequence, arg'.time)) =>
          /\ ret' = Ok
          /\ Sorted(sequence')
          /\ sequence' = WithInserted(sequence, arg')]_vars

\* C6: advance_and_maybe_reverse(delta) terminates for every sequence and
\* every delta (with duration() = 0 and delta # 0 included).
C6_ReverseTerminates == op = "advance_and_maybe_reverse" => status = "ok"

\* C7: advance_and_maybe_wrap(delta) terminates for every sequence and every
\* delta (with duration() = 0 and delta # 0 included).
C7_WrapTerminates == op = "advance_and_maybe_wrap" => status = "ok"

\* What C8 says of a call that asked for timestamp ts and returned r.
C8_Contract(ts, r) ==
    LET D == LastTime(sequence)
    IN  /\ (ts < 0) => time' = 0
        /\ (ts > D) => time' = D
        /\ (0 <= ts /\ ts <= D) => time' = ts
        /\ r = ts - time'
        /\ (r = 0) = (0 <= ts /\ ts <= D)
        /\ (r > 0) = (ts > D)
        /\ (r > 0) => time' = LastTime(sequence')
        /\ (r < 0) = (ts < 0)
        /\ (r < 0) => time' = 0

\* C8: advance_to(ts) sets time() to ts clamped into [0, duration()] and
\* returns ts - time(): 0 iff 0 <= ts <= duration(), positive iff
\* ts > duration() (then finished()), negative iff ts < 0 (then time() = 0);
\* advance_by(d) does what advance_to(time() + d) does.
C8_AdvanceClamps ==
    [][/\ op' = "advance_to" => C8_Contract(arg', ret')
       /\ op' = "advance_by" => C8_Contract(time + arg', ret')]_vars

\* C9: with duration D > 0 at time t, advance_and_maybe_wrap(d) returns true
\* exactly when t + d is outside [0, D]; t + d = D + r with 0 < r <= D ends
\* at time r, t + d = -r with 0 < r <= D ends at time D - r; the entries are
\* not modified.
C9_WrapLands ==
    [][(op' = "advance_and_maybe_wrap" /\ LastTime(sequence) > 0) =>
          LET D == LastTime(sequence)
              x == time + arg'
          IN  /\ status' = "ok"
              /\ ret' = (x < 0 \/ x > D)
              /\ (D < x /\ x <= 2 * D) => time' = x - D
              /\ (-D <= x /\ x < 0) => time' = D + x
              /\ sequence' = sequence]_vars

\* C9 witness: a wrap past the end that lands strictly inside the sequence.
C9_Witness ==
    /\ op = "advance_and_maybe_wrap"
    /\ status = "ok"
    /\ ret = TRUE
    /\ arg > 0
    /\ 0 < time /\ time < LastTime(sequence)

\* C10: with duration D > 0 and the first keyframe at time 0, at time t,
\* advance_and_maybe_reverse(d) returns true exactly when t + d is outside
\* [0, D]; t + d = D + r with 0 < r <= D ends reversed once at time r;
\* t + d = -r with 0 < r <= D ends reversed once at time D - r; when it
\* returns false the entries are unchanged and time() = t + d.
C10_ReverseLands ==
    [][(/\ op' = "advance_and_maybe_reverse"
        /\ LastTime(sequence) > 0
        /\ sequence[1].time = 0) =>
          LET D == LastTime(sequence)
              x == time + arg'
          IN  /\ status' = "ok"
              /\ ret' = (x < 0 \/ x > D)
              /\ (D < x /\ x <= 2 * D) =>
                    (reversals' = 1 /\ sequence' = Mirrored(sequence) /\ time' = x - D)
              /\ (-D <= x /\ x < 0) =>
                    (reversals' = 1 /\ sequence' = Mirrored(sequence) /\ time' = D + x)
              /\ (ret' = FALSE) => (sequence' = sequence /\ time' = x)]_vars

\* C10 witness: one reversal that lands strictly inside a sequence of three
\* keyframes, the first at time 0.
C10_Witness ==
    /\ op = "advance_and_maybe_reverse"
    /\ status = "ok"
    /\ ret = TRUE
    /\ reversals = 1
    /\ Len(sequence) = 3
    /\ sequence[1].time = 0
    /\ 0 < time /\ time < LastTime(sequence)

\* The (value, time, curve) entries and the duration after reverse() is
\* called once more on the object a reverse() step has just produced.
ReversedAgain == reverse(self')

\* C11: for every sequence, also one whose first keyframe is at a time > 0,
\* calling reverse() twice restores the original list of (value, time) pairs
\* and the original duration().
C11_ReverseTwiceRestores ==
    [][op' = "reverse" =>
          /\ ReversedAgain.sequence = sequence
          /\ duration(ReversedAgain) = duration(self)]_vars

\* C12: reverse() on a sorted sequence with duration D replaces every
\* entry's time by D - old_time while keeping that entry's value and curve,
\* leaves the entries sorted ascending with the same count, and sets time()
\* to 0 with the cursor recomputed for time 0.
C12_ReverseMirrors ==
    [][(op' = "reverse" /\ Sorted(sequence)) =>
          LET D == duration(self)
              n == Len(sequence)
          IN  /\ status' = "ok"
              /\ Len(sequence') = n
              /\ \A i \in 1 .. n :
                    \E j \in 1 .. n :
                        /\ sequence'[j].time = D - sequence[i].time
                        /\ sequence'[j].value = sequence[i].value
                        /\ sequence'[j].function = sequence[i].function
              /\ Sorted(sequence')
              /\ time' = 0
              /\ keyframe' = CursorFor(sequence', 0)]_vars

\* reverse() has run on three sorted entries, not all of one value or one
\* curve.
C12_Witness ==
    /\ op = "reverse" /\ status = "ok"
    /\ Len(sequence) = 3
    /\ Sorted(sequence)
    /\ sequence[1].value # sequence[3].value
    /\ sequence[1].function # sequence[2].function
    /\ time = 0 /\ keyframe = 0

\* s without its entries of time t, the others in their order.
WithoutTime(s, t) == SelectSeq(s, LAMBDA e : e.time # t)

\* C13: remove(ts) returns true iff an entry with time exactly ts existed;
\* afterwards no entry has time ts and all other entries remain in their
\* order; time() becomes the new duration() if it exceeded it and is
\* otherwise unchanged; when remove returns false, entries, time() and
\* cursor are all unchanged.  This holds also when the removed entry is the
\* only one or the one under the cursor.
C13_RemoveContract ==
    [][op' = "remove" =>
          /\ status' = "ok"
          /\ ret' = HasTime(sequence, arg')
          /\ ~HasTime(sequence', arg')
          /\ sequence' = WithoutTime(sequence, arg')
          /\ time' = IF time > LastTime(sequence') THEN LastTime(sequence')
                     ELSE time
          /\ (ret' = FALSE) =>
                (sequence' = sequence /\ time' = time /\ keyframe' = keyframe)]_vars

\* C14: clear() on any sequence, empty or not and at any playback position,
\* completes without failure and leaves keyframes() = 0, duration() = 0,
\* time() = 0 and cursor None, so that pair() = (None, None) and
\* now_strict() = None.
C14_ClearEmpties ==
    [][op' = "clear" =>
          /\ status' = "ok"
          /\ Len(sequence') = 0
          /\ LastTime(sequence') = 0
          /\ time' = 0
          /\ keyframe' = None
          /\ pair(self)' = [s1 |-> NoneOf, s2 |-> NoneOf]
          /\ now_strict(self)' = NoneOf]_vars

\* C15: retain(f) on any sequence and any predicate completes without
\* failure (also when several entries are removed so that the new length is
\* <= the old cursor index); it keeps exactly the entries whose time
\* satisfies f, in order; returns true iff at least one entry was removed;
\* clamps time() to the new duration(); and leaves the cursor consistent
\* with time().
C15_RetainContract ==
    [][op' = "retain" =>
          /\ status' = "ok"
          /\ sequence' = SelectSeq(sequence, LAMBDA e : e.time \in arg')
          /\ ret' = (Len(sequence') < Len(sequence))
          /\ time' = IF time > LastTime(sequence') THEN LastTime(sequence')
                     ELSE time
          /\ keyframe' = CursorFor(sequence', time')]_vars

\* C16: in every reachable state now_strict() returns None if and only if
\* the sequence has no entries; on an empty sequence now() returns
\* T::default(), duration() returns 0 and progress() returns 0.
C16_EmptyReads ==
    status = "ok" =>
        /\ (now_strict(self) = NoneOf) = (sequence = <<>>)
        /\ (sequence = <<>>) =>
              /\ now(self) = Int64(default)
              /\ duration(self) = 0
              /\ progress(self) = Int64(0)

\* A call has emptied a sequence that had entries, and the reads answer
\* nothing, the default and zero.
C16_Witness ==
    /\ status = "ok"
    /\ op \in {"remove", "retain"}
    /\ ret = TRUE
    /\ sequence = <<>>
    /\ now_strict(self) = NoneOf
    /\ now(self) = Int64(0)

\* from + (to - from) * (num / den), for den > 0.
LinearBlend(from, to, num, den) == F64(from * den + (to - from) * num, den)

\* C17: whenever the sequence is non-empty and time() is before the first
\* entry's time (no prior keyframe exists, including time() = 0 right after
\* construction with the first keyframe at a time > 0), now() returns the
\* blend from T::default() at time 0 toward the first entry's value with
\* linear progress time() / first.time.
C17_BlendFromDefault ==
    (status = "ok" /\ sequence # <<>> /\ time < sequence[1].time) =>
        now(self) = LinearBlend(default, sequence[1].value,
                                time, sequence[1].time)

\* C18: for a sequence with entries e0..en at playback time t: if
\* e[i].time <= t < e[i+1].time then now() and now_strict() equal
\* e[i].tween_to(e[i+1], t), the blend of the two bracketing values using
\* e[i]'s curve; if t >= e[n].time they equal e[n].value.  E.g. keyframes
\* (0.5, t=0.0), (1.5, t=0.3, Linear), (2.5, t=1.0) after advance_by(0.65)
\* give now() = 2.0 and duration() = 1.0.
C18_NowBetweenEntries ==
    status = "ok" =>
        LET n == Len(sequence)
        IN  /\ \A i \in 1 .. n - 1 :
                  (sequence[i].time <= time /\ time < sequence[i + 1].time) =>
                      /\ now(self) = tween_to(sequence[i], sequence[i + 1], time)
                      /\ now_strict(self) = SomeOf(now(self))
            /\ (n > 0 /\ time >= sequence[n].time) =>
                  /\ now(self) = value(sequence[n])
                  /\ now_strict(self) = SomeOf(now(self))
            /\ (sequence = dedup_by_key(sort_unstable_by_time(DocExample))
                    /\ op = "advance_by" /\ arg = DocExampleDelta
                    /\ time = DocExampleDelta) =>
                  /\ now(self) = Int64(4)
                  /\ duration(self) = 20

\* C19: a.tween_to(b, t) applies these rules in this priority order: if
\* t < a.time it returns a.value; else if t > b.time it returns b.value;
\* else if b.time < a.time it returns b.value; otherwise it returns
\* blend(a.value, b.value, curve_a((t - a.time) / (b.time - a.time))) using
\* a's curve only.  With a = (0, t=0, Linear), b = (10, t=1): t = -0.5 gives
\* 0, t = 1.5 gives 10, t = 0.5 gives 5 (one tick is half a second).
C19_TweenToRules ==
    op = "tween_to" =>
        LET a == arg.self
            b == arg.next
            t == arg.time
        IN  /\ ret =
                  IF t < a.time THEN Int64(a.value)
                  ELSE IF t > b.time THEN Int64(b.value)
                  ELSE IF b.time < a.time THEN Int64(b.value)
                  ELSE CanTween_ease(Int64(a.value), Int64(b.value),
                          y(a.function, F64(t - a.time, b.time - a.time)))
            /\ (a = Keyframe_new(0, 0, "Linear") /\ b.value = 10 /\ b.time = 2) =>
                  /\ (t = -1) => ret = Int64(0)
                  /\ (t = 3) => ret = Int64(10)
                  /\ (t = 1) => ret = Int64(5)

\* tween_to was asked for the value half way from (0, t=0, Linear) to
\* (10, t=1) and answered 5.
C19_Witness ==
    /\ op = "tween_to"
    /\ arg.self = Keyframe_new(0, 0, "Linear")
    /\ arg.next.value = 10 /\ arg.next.time = 2
    /\ arg.time = 1
    /\ ret = Int64(5)

\* C20: in every reachable state progress() lies in [0, 1], and
\* duration() = 0 implies progress() = 0 (no division by zero).
C20_ProgressInUnitRange ==
    status = "ok" =>
        LET p == progress(self)
        IN  /\ ~IsNaN(p)
            /\ ~lt(p, Int64(0))
            /\ ~lt(Int64(1), p)
            /\ (duration(self) = 0) => p = Int64(0)

\* Item i of a batch has the time of no earlier item of the batch.
FirstOfItsTime(items, i) ==
    \A j \in 1 .. (i - 1) : items[j].time # items[i].time

\* k is an entry of s.
IsEntry(s, k) == \E e \in 1 .. Len(s) : s[e] = k

\* C21: building a sequence from an iterator discards collisions per item
\* rather than aborting the batch: every item whose time does not collide
\* with an earlier item of the iterator ends up in the resulting sequence,
\* including items that come after a colliding item, and the result is
\* sorted.
C21_FromIterDiscardsPerItem ==
    op = "from_iter" =>
        /\ \A i \in 1 .. Len(arg) :
              FirstOfItsTime(arg, i) => IsEntry(sequence, arg[i])
        /\ Sorted(sequence)

\* The entries of s as a set.
EntriesOf(s) == {s[e] : e \in 1 .. Len(s)}

\* Item i of a batch collides: its time is that of an entry of s or of an
\* earlier item of the batch.
Collides(s, items, i) == HasTime(s, items[i].time) \/ ~FirstOfItsTime(items, i)

\* The index of the first colliding item of a batch, 0 when none collides.
FirstCollision(s, items) ==
    LET c == {i \in 1 .. Len(items) : Collides(s, items, i)}
    IN  IF c = {} THEN 0 ELSE CHOOSE i \in c : \A j \in c : i <= j

\* C22: insert_many(items) returns Err(TimeCollision(t)) for the first item
\* whose time t equals that of an existing entry or of an earlier item of
\* the same batch; the items before it stay inserted (no rollback) and no
\* item after it is inserted; if no item collides it returns Ok and every
\* item is inserted.
C22_InsertManyStopsAtCollision ==
    [][op' = "insert_many" =>
          LET items == arg'
              c == FirstCollision(sequence, items)
              inserted == IF c = 0 THEN items ELSE SubSeq(items, 1, c - 1)
          IN  /\ status' = "ok"
              /\ ret' = IF c = 0 THEN Ok ELSE TimeCollision(items[c].time)
              /\ Len(sequence') = Len(sequence) + Len(inserted)
              /\ EntriesOf(sequence') =
                    EntriesOf(sequence) \cup EntriesOf(inserted)]_vars

\* insert_many has pushed the first item of a batch of three, returned the
\* collision of the second and left out the third, whose time was free.
C22_Witness ==
    /\ op = "insert_many" /\ status = "ok"
    /\ Len(arg) = 3
    /\ ret = TimeCollision(arg[2].time)
    /\ arg[1].time # arg[2].time
    /\ IsEntry(sequence, arg[1])
    /\ ~HasTime(sequence, arg[3].time)
    /\ Len(sequence) = 2

\* The times of the entries of s as a set.
TimesOf(s) == {s[e].time : e \in 1 .. Len(s)}

\* How many entries of s have time t.
CountAt(s, t) == Cardinality({e \in 1 .. Len(s) : s[e].time = t})

\* C23: constructing a sequence from a Vec (or the keyframes! macro) or from
\* an iterator whose input contains the same time twice yields exactly one
\* entry for that time; construction from a Vec additionally yields a sorted
\* sequence with exactly one entry for every distinct input time,
\* time() = 0 and cursor Some(0) when non-empty.
C23_ConstructionDedups ==
    /\ op \in {"from", "from_iter"} =>
          \A t \in TimesOf(arg) :
              CountAt(arg, t) >= 2 => CountAt(sequence, t) = 1
    /\ op = "from" =>
          /\ Sorted(sequence)
          /\ TimesOf(sequence) = TimesOf(arg)
          /\ \A t \in TimesOf(arg) : CountAt(sequence, t) = 1
          /\ time = 0
          /\ (sequence # <<>>) => keyframe = 0

\* C24: Keyframe::new (and the tuple conversions) clamp a negative time to 0,
\* and in every state reachable by any sequence of AnimationSequence
\* operations (including reverse after a failed insert_many or after a
\* middle insert) every entry's time is >= 0.
C24_TimesNonNegative ==
    /\ \A t \in InputTimes :
          /\ Keyframe_new(1, t, "Linear").time = (IF t < 0 THEN 0 ELSE t)
          /\ Keyframe_from(1, t).time = (IF t < 0 THEN 0 ELSE t)
    /\ \A e \in 1 .. Len(sequence) : sequence[e].time >= 0

\* The entries of arg' when it is a batch of keyframes.
Entries(s) == {[value |-> s[i].value, time |-> s[i].time] : i \in 1 .. Len(s)}

\* C25: no operation other than reverse changes the time of an entry:
\* advance_to, advance_by and advance_and_maybe_wrap leave the list as it is;
\* after insert and insert_many every old (value, time) is still there and
\* every entry is an old one or one of the items; after remove, retain and
\* clear every entry is an old one; and insert leaves time() unchanged.
C25_OnlyReverseRetimes ==
    [][/\ op' \in {"advance_to", "advance_by", "advance_and_maybe_wrap"}
            => sequence' = sequence
       /\ op' = "insert"
            => /\ Entries(sequence) \subseteq Entries(sequence')
               /\ Entries(sequence') \subseteq Entries(sequence) \cup Entries(<<arg'>>)
               /\ time' = time
       /\ op' = "insert_many"
            => /\ Entries(sequence) \subseteq Entries(sequence')
               /\ Entries(sequence') \subseteq Entries(sequence) \cup Entries(arg')
       /\ op' \in {"remove", "retain", "clear"}
            => Entries(sequence') \subseteq Entries(sequence)]_vars

\* C25 witness: a wrap past a boundary of a sequence with two entries at
\* different times has completed.
C25_Witness ==
    /\ op = "advance_and_maybe_wrap" /\ status = "ok" /\ ret = TRUE
    /\ Len(sequence) >= 2 /\ sequence[1].time # sequence[2].time

\* C26: in every reachable state pair() returns (None, None) if there are no
\* keyframes; (None, first keyframe) if time() has not reached the first
\* keyframe's time; (last keyframe, None) if time() has reached the last
\* keyframe's time; and otherwise (current, next) where current is the
\* latest keyframe at or before time() and next is the one after it.
C26_PairCases ==
    status = "ok" =>
        LET n == Len(sequence)
            AtOrBefore == {i \in 1 .. n : sequence[i].time <= time}
            current == CHOOSE i \in AtOrBefore : \A j \in AtOrBefore : j <= i
        IN  pair(self) =
                IF n = 0 THEN [s1 |-> NoneOf, s2 |-> NoneOf]
                ELSE IF time < sequence[1].time
                THEN [s1 |-> NoneOf, s2 |-> SomeOf(sequence[1])]
                ELSE IF time >= sequence[n].time
                THEN [s1 |-> SomeOf(sequence[n]), s2 |-> NoneOf]
                ELSE [s1 |-> SomeOf(sequence[current]),
                      s2 |-> SomeOf(sequence[current + 1])]

\* C27: in every scalar implementation of CanTween::ease in the repository
\* (easing.rs and tweening/mod.rs), ease(from, to, t) returns
\* from + (to - from) * t for every from, to and t, also outside [0, 1]; so
\* ease(from, to, 0) = from and ease(from, to, 1) = to.
C27_ScalarEase ==
    op = "CanTween::ease" =>
        /\ ret = add(arg.from, mul(sub(arg.to, arg.from), arg.time))
        /\ arg.time = Int64(0) => ret = arg.from
        /\ arg.time = Int64(1) => ret = arg.to

\* The progress the bounded entry points are to use for time t.
Clamped(t) ==
    IF lt(t, Int64(0)) THEN Int64(0) ELSE IF lt(Int64(1), t) THEN Int64(1) ELSE t

\* The progress the scaled entry points are to use for time t of max.
Scaled(t, max) ==
    IF lt(t, Int64(0)) THEN Int64(0) ELSE IF lt(max, t) THEN Int64(1) ELSE div(t, max)

\* The result of the module's unclamped entry point for progress p.
ResultFor(a, p) ==
    IF a.module = "easing"
    THEN ease_with_unbounded_time(a.function, a.from, a.to, p)
    ELSE tweening_ease_with_unbounded_time(a.function, a.from, a.to, p)

\* C28: the bounded easing entry points limit progress before applying the
\* curve: ease (and the older y) use t clamped to [0, 1];
\* ease_with_scaled_time and the older y_for_scaled_x give the result for
\* progress 0 when t < 0, for progress 1 when t > max (for every max > 0,
\* also max < 1) and for progress t / max otherwise; and
\* ease_with_unbounded_time passes t to the curve as it is.
C28_BoundedEntryPointsClamp ==
    /\ op = "ease" => ret = ResultFor(arg, Clamped(arg.time))
    /\ op = "ease_with_scaled_time"
         => ret = ResultFor(arg, Scaled(arg.time, arg.max_time))
    /\ op = "y" => ret = y_for_unbounded_x(arg.function, Clamped(arg.x))
    /\ op = "y_for_scaled_x"
         => ret = y_for_unbounded_x(arg.function, Scaled(arg.x, arg.max_x))
    /\ op = "ease_with_unbounded_time" => ret = ResultFor(arg, arg.time)

\* The line through entries c and c + 1 of the table, read at position pos
\* (in samples).
AlongSegment(table, c, pos) ==
    add(table[c + 1],
        mul(sub(table[c + 2], table[c + 1]), sub(pos, Int64(c))))

\* C29: Keyframes::y(x) is defined for every x, also x = 1 and x beyond the
\* sampled range, and reads no table index outside 0 .. SAMPLE_TABLE_SIZE-1:
\* inside the table it is the linear interpolation between the two
\* bracketing entries, and at or beyond the first / last sample it continues
\* the first / last segment linearly.
C29_KeyframesYInterpolates ==
    op = "Keyframes::y" =>
        LET pos == mul(arg.x, Int64(SAMPLE_TABLE_SIZE))
            c == floor(pos)
        IN  /\ ret # Panic
            /\ ret = AlongSegment(arg.table,
                        IF c < 0 THEN 0
                        ELSE IF c > SAMPLE_TABLE_SIZE - 2 THEN SAMPLE_TABLE_SIZE - 2
                        ELSE c,
                        pos)

\* The value the sequence has at i / (SAMPLE_TABLE_SIZE - 1) of its duration.
ValueAtSample(me, i) ==
    now(advance_to(Rescaled(me, SAMPLE_TABLE_SIZE - 1), i * duration(me)).me)

\* C30: to_easing_function / Keyframes::from_easing_function is defined for
\* every scalar sequence, the empty one included; entry i of its table is
\* (value - low) / (high - low) for the value of the sequence at the i-th of
\* SAMPLE_TABLE_SIZE evenly spaced times from 0 to duration(), with low /
\* high the values of the first / last keyframe, replaced by 0 / 1 exactly
\* when high = low (so nothing is divided by zero).
C30_ToEasingFunctionSamples ==
    op = "to_easing_function" =>
        LET first == IF sequence = <<>> THEN Int64(default) ELSE value(sequence[1])
            last == IF sequence = <<>> THEN Int64(default)
                    ELSE value(sequence[Len(sequence)])
            low == IF last = first THEN Int64(0) ELSE first
            high == IF last = first THEN Int64(1) ELSE last
        IN  /\ ret # Panic
            /\ \A i \in 0 .. SAMPLE_TABLE_SIZE - 1 :
                  /\ ~IsNaN(ret.table[i + 1])
                  /\ ret.table[i + 1] =
                        div(sub(ValueAtSample(self, i), low), sub(high, low))

\* C31: evaluating a BezierCurve at any x terminates within fixed bounds: the
\* table search makes at most SAMPLE_TABLE_SIZE - 1 passes, Newton-Raphson at
\* most NEWTON_ITERTIONS and binary subdivision at most
\* SUBDIVISION_MAX_ITERATIONS; x = 0 and x = 1 return exactly 0 and 1
\* without any pass of any loop.
C31_BezierBounded ==
    op = "BezierCurve::y" =>
        /\ ret.searched <= SAMPLE_TABLE_SIZE - 1
        /\ ret.newton <= NEWTON_ITERTIONS
        /\ ret.subdivided <= SUBDIVISION_MAX_ITERATIONS
        /\ arg.x \in {Int64(0), Int64(1)}
             => /\ ret.value = arg.x
                /\ ret.searched = 0 /\ ret.newton = 0 /\ ret.subdivided = 0

\* C31 witness: an evaluation whose table search ran to the last sample and
\* whose Newton-Raphson loop ran all its passes.
C31_Witness ==
    /\ op = "BezierCurve::y"
    /\ ret.searched = SAMPLE_TABLE_SIZE - 2
    /\ ret.newton = NEWTON_ITERTIONS

\* C32: in every reachable state the cursor is None or Some(i) with
\* i < keyframes(), and None whenever the sequence is empty; so pair(), now()
\* and now_strict() never index outside the entry list.
C32_CursorInBounds ==
    /\ keyframe = None \/ (0 <= keyframe /\ keyframe < keyframes(self))
    /\ sequence = <<>> => keyframe = None
    /\ pair(self) # Panic
    /\ now(self) # Panic
    /\ now_strict(self) # Panic

\* C32 witness: an entry under the cursor was removed and the call completed.
C32_Witness ==
    /\ op \in {"remove", "retain"} /\ status = "ok" /\ ret = TRUE
    /\ sequence # <<>> /\ keyframe = keyframes(self) - 1

\* C33: advance_to is idempotent on what can be observed: after
\* advance_to(ts), a second advance_to(ts) leaves the same time(), the same
\* cursor and the same pair(), now() and now_strict(), also when ts is
\* before the first keyframe's time.
C33_AdvanceToIdempotent ==
    op = "advance_to" /\ status = "ok" =>
        LET again == advance_to(self, arg).me
        IN  /\ again.status = "ok"
            /\ again.time = time
            /\ again.keyframe = keyframe
            /\ pair(again) = pair(self)
            /\ now(again) = now(self)
            /\ now_strict(again) = now_strict(self)

\* The sequences with the given entries and time reached by the shortest
\* history: From<Vec> of the entries, then advance_to(t).
Afresh(s, t) == {advance_to(me, t).me : me \in from_vec(s)}

\* C34: what is read is a function of the entries and time() only: a state
\* reads the same pair(), now() and now_strict() as the state with the same
\* entries and the same time() that is built from the entries and sought
\* once, whatever calls led to it.
C34_ReadsDependOnEntriesAndTime ==
    status = "ok" =>
        \A fresh \in Afresh(sequence, time) :
            /\ fresh.sequence = sequence /\ fresh.time = time
                => /\ pair(self) = pair(fresh)
                   /\ now(self) = now(fresh)
                   /\ now_strict(self) = now_strict(fresh)

\* C35: reverse() mirrors playback: for a sorted sequence with duration D
\* whose first keyframe is at time 0, and every t in [0, D], now_strict() at
\* time t after reverse() equals now_strict() of the sequence before the
\* call at time D - t, whatever curves the keyframes carry.
C35_ReverseMirrorsPlayback ==
    [][(/\ op' = "reverse"
        /\ sequence # <<>> /\ Sorted(sequence) /\ sequence[1].time = 0)
          => \A t \in 0 .. duration(self) :
                now_strict(advance_to(self', t).me)
                    = now_strict(advance_to(self, duration(self) - t).me)]_vars

\* C36: insert_many re-sorts the entries and recomputes the cursor on every
\* return path: after insert_many on a sorted sequence, also when it returns
\* Err(TimeCollision) after having pushed some items, the sequence is sorted
\* ascending, duration() is the greatest entry time, time() <= duration()
\* and the cursor matches time().
C36_InsertManyAlwaysSorts ==
    [][(op' = "insert_many" /\ Sorted(sequence) /\ time <= duration(self)) =>
          /\ status' = "ok"
          /\ Sorted(sequence')
          /\ \A i \in 1 .. Len(sequence') : sequence'[i].time <= duration(self')
          /\ time' <= duration(self')
          /\ keyframe' = CursorFor(sequence', time')]_vars

\* C37: Keyframe::tween_to is total: for two keyframes of equal time and a
\* requested time equal to it, the result is the value of one of them; and
\* whenever tween_to reaches its blending arm, the scaled time it obtains
\* from ease_with_scaled_time is a number, never a quotient by max_time = 0.
C37_TweenToTotal ==
    op = "tween_to" =>
      /\ (arg.self.time = arg.next.time /\ arg.time = arg.self.time)
            => ret \in {value(arg.self), value(arg.next)}
      /\ (arg.self.time <= arg.time /\ arg.time <= arg.next.time)
            => ~IsNaN(ease_with_scaled_time("Linear", Int64(0), Int64(1),
                                            Int64(arg.time - arg.self.time),
                                            Int64(arg.next.time - arg.self.time)))

\* C38: playback reaches the end and stays there: when advance_by(d) is called
\* again and again with one d > 0, finished() is true from some call on; and
\* a call of advance_by(d), d > 0, on a finished sequence leaves it finished,
\* returns d, and changes neither the entries nor time().
C38_PlaybackEnds ==
    /\ <>[](status = "ok" /\ finished(self))
    /\ [][(status = "ok" /\ finished(self) /\ op' = "advance_by") =>
             /\ status' = "ok"
             /\ finished(self')
             /\ ret' = arg'
             /\ sequence' = sequence
             /\ time' = time]_vars

\* The slope t_for_x finds at its first guess for x (inital_slope).
InitialSlope(curve, x) ==
    LET searched == search(curve.sample_table, x, 1) - 1
        interval_start == F64(searched, SAMPLE_TABLE_SIZE - 1)
        dist == div(sub(x, curve.sample_table[searched + 1]),
                    sub(curve.sample_table[searched + 2],
                        curve.sample_table[searched + 1]))
        guess_for_t == add(interval_start, mul(dist, Int64(SAMPLE_TABLE_SIZE)))
    IN  BezierCurve_slope(guess_for_t, curve.p1.x, curve.p2.x)

\* C39: binary_subdivide(x, a, b, x1, x2) makes at least one bisection step
\* and returns a parameter t with a <= t <= b; and an evaluation whose
\* initial slope is exactly zero is refined by binary subdivision.
C39_BinarySubdivideBisects ==
    /\ op = "binary_subdivide" =>
          /\ ret.iterations >= 1
          /\ ~lt(ret.t, arg.a)
          /\ ~lt(arg.b, ret.t)
    /\ (/\ op = "BezierCurve::y"
        /\ arg.x \notin {Int64(0), Int64(1)}
        /\ InitialSlope(BezierCurve_from(arg.p1, arg.p2), arg.x) = Int64(0))
          => ret.subdivided >= 1

====
